---- MODULE Spec2Model ----
(***************************************************************************)
(* Model of the editor view of the Mezo application (src/mezo/editor.py):  *)
(* the pannable / zoomable viewer, the tools that create and remove        *)
(* circular annotations ("mezo"), the RGBA mask they are painted on and    *)
(* the three-deep mask history behind Ctrl+Z.                              *)
(*                                                                         *)
(* page.session is modelled key by key: every session key is a variable.   *)
(* A key that may be absent holds <<>> (absent) or <<v>> (present).        *)
(* Handlers are operators from a session record to a session record, so    *)
(* that a handler calling another (open_image -> window_resized ->         *)
(* update_scale) is a composition; an action applies one handler to the    *)
(* current session and stores every key back.                              *)
(*                                                                         *)
(* Numbers: Python floats are modelled as exact rationals <<n, d>>, d > 0, *)
(* in lowest terms; round() is Python's round-half-to-even.  A diameter is *)
(* kept as its square (diameter2 = diameter^2), which is an integer for    *)
(* every circle the bounded inputs can produce, so that every comparison   *)
(* of distances and radii is exact.                                        *)
(***************************************************************************)
EXTENDS Integers, Sequences, FiniteSets, TLC

\* ------------------------------------------------------------------ bounds
\* Size of the sample images, in pixels.
ImageWidth == 13
ImageHeight == 3
\* Number of images of the sample.
ImageCount == 2
\* Highest mezo_id the AUTOINCREMENT key of mezo_data hands out.
MaxId == 4
\* The number of inserts of a session that sqlite3 may refuse.
MaxFailures == 2
\* the deepest call stack the interpreter allows (sys.getrecursionlimit)
RecursionLimit == 4

\* ------------------------------------------------------- program constants
MinViewerScale == 1
MaxViewerScale == 15
HistoryDepth == 3
OutlineWidth == 3
CenterDot == 2
FillAlpha == 128
ScaleDigits == 5
ChromeWidth == 10
ChromeHeight == 76

\* ------------------------------------------------------- optional values
Has(k) == k # <<>>
Val(k) == k[1]
Absent == <<>>
Some(v) == <<v>>

\* ------------------------------------------------------------- rationals
Abs(i) == IF i < 0 THEN -i ELSE i

RECURSIVE Gcd(_, _)
Gcd(a, b) == IF b = 0 THEN a ELSE Gcd(b, a % b)

\* n/d in lowest terms with a positive denominator (d # 0).
Rat(n, d) ==
    LET g == Gcd(Abs(n), Abs(d))
        sgn == IF d < 0 THEN -1 ELSE 1
    IN  <<(sgn * n) \div g, (sgn * d) \div g>>

R(i) == <<i, 1>>
RAdd(a, b) == Rat(a[1] * b[2] + b[1] * a[2], a[2] * b[2])
RSub(a, b) == Rat(a[1] * b[2] - b[1] * a[2], a[2] * b[2])
RMul(a, b) == Rat(a[1] * b[1], a[2] * b[2])
RDiv(a, b) == Rat(a[1] * b[2], a[2] * b[1])
RLt(a, b) == a[1] * b[2] < b[1] * a[2]
RLe(a, b) == a[1] * b[2] <= b[1] * a[2]
RMin(a, b) == IF RLe(a, b) THEN a ELSE b
RMax(a, b) == IF RLe(a, b) THEN b ELSE a

\* Python's round(x): to the nearest integer, ties to the even one.
Round(a) ==
    LET q == a[1] \div a[2]
        rem == a[1] - q * a[2]
    IN  IF 2 * rem < a[2] THEN q
        ELSE IF 2 * rem > a[2] THEN q + 1
        ELSE IF q % 2 = 0 THEN q ELSE q + 1

RECURSIVE Pow10(_)
Pow10(k) == IF k = 0 THEN 1 ELSE 10 * Pow10(k - 1)

\* round(x, digits), scaled by 10^digits (two such values are equal iff the
\* rounded floats are).
RoundDigits(a, digits) == Round(RMul(a, R(Pow10(digits))))

\* -------------------------------------------------------------- variables
VARIABLES
    \* the window (page.width, page.height)
    page_size,
    \* page.session, key by key
    image_index, image_size, viewer_size, viewer_scale, window_scale,
    image_scale, main_offset, viewer_offset, margin, scale, move,
    start_cursor, start_scale, start_offset, tool, current_coord, sam_model,
    mezo_data, mask, prev_masks,
    \* mezo.db: the rows of table mezo_data and its AUTOINCREMENT counter
    db, next_id,
    \* data/<sample>/masks/mask <n>.png, per image index: <<>> or <<png>>
    mask_files,
    \* the InteractiveViewer: TRUE between on_interaction_start and _end
    in_gesture,
    \* the call stack of a remove_mezo that is run step by step
    calls,
    \* history variables (not program state): what the last handler did
    last_op, last_mezo, last_log, pushed, pushed_for, create_run, undo_run

vars == <<page_size, image_index, image_size, viewer_size, viewer_scale,
          window_scale, image_scale, main_offset, viewer_offset, margin,
          scale, move, start_cursor, start_scale, start_offset, tool,
          current_coord, sam_model, mezo_data, mask, prev_masks, db, next_id,
          mask_files, in_gesture, calls, last_op, last_mezo, last_log, pushed,
          pushed_for, create_run, undo_run>>

\* The session (with the database and the mask files) as one record.
Session ==
    [page_size |-> page_size, image_index |-> image_index,
     image_size |-> image_size, viewer_size |-> viewer_size,
     viewer_scale |-> viewer_scale, window_scale |-> window_scale,
     image_scale |-> image_scale, main_offset |-> main_offset,
     viewer_offset |-> viewer_offset, margin |-> margin, scale |-> scale,
     move |-> move, start_cursor |-> start_cursor,
     start_scale |-> start_scale, start_offset |-> start_offset,
     tool |-> tool, current_coord |-> current_coord, sam_model |-> sam_model,
     mezo_data |-> mezo_data, mask |-> mask, prev_masks |-> prev_masks,
     db |-> db, next_id |-> next_id, mask_files |-> mask_files,
     log |-> <<>>]

\* page.session (and the files) after a handler returned s.
Store(s) ==
    /\ page_size' = s.page_size
    /\ image_index' = s.image_index
    /\ image_size' = s.image_size
    /\ viewer_size' = s.viewer_size
    /\ viewer_scale' = s.viewer_scale
    /\ window_scale' = s.window_scale
    /\ image_scale' = s.image_scale
    /\ main_offset' = s.main_offset
    /\ viewer_offset' = s.viewer_offset
    /\ margin' = s.margin
    /\ scale' = s.scale
    /\ move' = s.move
    /\ start_cursor' = s.start_cursor
    /\ start_scale' = s.start_scale
    /\ start_offset' = s.start_offset
    /\ tool' = s.tool
    /\ current_coord' = s.current_coord
    /\ sam_model' = s.sam_model
    /\ mezo_data' = s.mezo_data
    /\ mask' = s.mask
    /\ prev_masks' = s.prev_masks
    /\ db' = s.db
    /\ next_id' = s.next_id
    /\ mask_files' = s.mask_files

\* ------------------------------------------------------------- the mask
\* An RGBA image of image_size.  Every painted pixel has the colour
\* (191, 255, 0), so a pixel is modelled by its alpha channel alone.
Pixels == (0 .. ImageWidth - 1) \X (0 .. ImageHeight - 1)
PixelCount == ImageWidth * ImageHeight
PixelAt(i) == <<(i - 1) % ImageWidth, (i - 1) \div ImageWidth>>
IndexOf(p) == p[2] * ImageWidth + p[1] + 1

\* Image.new('RGBA', size, (255, 255, 255, 0))
TransparentMask == [p \in Pixels |-> 0]

\* mask.save(..., format="PNG") and Image.open(...): the scanlines, row by row.
PngEncode(m) == [i \in 1 .. PixelCount |-> m[PixelAt(i)]]
PngDecode(png) == [p \in Pixels |-> png[IndexOf(p)]]

\* sqrt(x) < sqrt(a) + sqrt(b), for naturals x, a, b.
SqrtLtSum(x, a, b) ==
    LET t == x - a - b
    IN  t < 0 \/ t * t < 4 * a * b

\* Squared distance of two points.
Dist2(p, q) == (p[1] - q[1]) * (p[1] - q[1]) + (p[2] - q[2]) * (p[2] - q[2])

\* distance(p, center) <= diameter / 2
InCircle(p, center, diameter2) == 4 * Dist2(p, center) <= diameter2

\* The pixels ImageDraw.ellipse gives the outline colour: those of the circle
\* less than `width` from its edge (radius - width < distance <= radius).
InOutline(p, center, diameter2) ==
    /\ InCircle(p, center, diameter2)
    /\ SqrtLtSum(diameter2, 4 * Dist2(p, center),
                 4 * OutlineWidth * OutlineWidth)

\* The center dot, the ellipse [(x - 2, y - 2), (x + 2, y + 2)].
InCenterDot(p, center) == Dist2(p, center) <= CenterDot * CenterDot

\* Alpha of the overlay drawn by add_mezo_to_viewer.
OverlayAlpha(p, center, diameter2) ==
    IF InCenterDot(p, center) \/ InOutline(p, center, diameter2) THEN 255
    ELSE IF InCircle(p, center, diameter2) THEN FillAlpha
    ELSE 0

\* Image.alpha_composite, alpha channel: src over dst, in Pillow's 8-bit
\* arithmetic (a division by 255 done with shifts).
AlphaComposite(src, dst) ==
    IF src = 0 THEN dst
    ELSE LET a == src * 255 + dst * (255 - src) + 128
         IN  ((a \div 256) + a) \div 256

PaintMezo(m, center, diameter2) ==
    [p \in Pixels |-> AlphaComposite(OverlayAlpha(p, center, diameter2), m[p])]

RECURSIVE PaintRows(_, _)
\* The rows painted onto a mask m, first row first.
PaintRows(rows, m) ==
    IF rows = <<>> THEN m
    ELSE PaintRows(Tail(rows), PaintMezo(m, Head(rows).center, Head(rows).diameter2))

\* mask_draw.ellipse(..., fill=(255, 255, 255, 0)): drawing replaces pixels.
EraseMezo(m, center, diameter2) ==
    [p \in Pixels |-> IF InCircle(p, center, diameter2) THEN 0 ELSE m[p]]

\* The mask is kept in memory only.
SaveMaskInMemory(s, m) ==
    [s EXCEPT !.mask = m]

\* mask.save(mask_path); page.session.set('mask', mask): mask_path is the
\* path of the mask of the open image
SaveMask(s, m) ==
    [s EXCEPT !.mask = m,
              !.mask_files[s.image_index] = Some(PngEncode(m))]

\* ------------------------------------------------------------ the viewer
ZeroMargin == [left |-> R(0), top |-> R(0), right |-> R(0), bottom |-> R(0)]

\* viewer_scale = max(1.0, min(15.0, viewer_scale_0 * scale))
\* No limits.
ClampScaleNone(x) == x

ClampScale(x) == RMax(R(MinViewerScale), RMin(R(MaxViewerScale), x))

\* A window scale that builds on the one before.
update_scale_compounding(s, factor) ==
    IF s.image_size = Absent THEN s
    ELSE
    LET image_width == Val(s.image_size)[1]
        image_height == Val(s.image_size)[2]
        viewer_width == s.viewer_size[1]
        viewer_height == s.viewer_size[2]
        viewer_scale_0 == s.viewer_scale
        new_viewer_scale == ClampScale(RMul(viewer_scale_0, factor))
        new_window_scale ==
            RMul(s.window_scale,
                 RMin(RMin(Rat(viewer_width, image_width),
                           Rat(viewer_height, image_height)), R(1)))
        new_image_scale == RMul(new_window_scale, new_viewer_scale)
        scaled_image_width == RMul(R(image_width), new_image_scale)
        scaled_image_height == RMul(R(image_height), new_image_scale)
        main_viewer_offset ==
            <<Round(RDiv(RSub(R(viewer_width), scaled_image_width), R(2))),
              Round(RDiv(RSub(R(viewer_height), scaled_image_height), R(2)))>>
        seeded == ~Has(s.viewer_offset)
    IN  [s EXCEPT !.main_offset = main_viewer_offset,
                  !.viewer_offset = IF seeded THEN Some(main_viewer_offset) ELSE @,
                  !.margin = IF seeded THEN ZeroMargin ELSE @,
                  !.viewer_scale = new_viewer_scale,
                  !.window_scale = new_window_scale,
                  !.image_scale = new_image_scale,
                  !.scale = Some(RDiv(new_viewer_scale, viewer_scale_0))]

update_scale(s, factor) ==
    IF s.image_size = Absent THEN s
    ELSE
    LET image_width == Val(s.image_size)[1]
        image_height == Val(s.image_size)[2]
        viewer_width == s.viewer_size[1]
        viewer_height == s.viewer_size[2]
        viewer_scale_0 == s.viewer_scale
        new_viewer_scale == ClampScale(RMul(viewer_scale_0, factor))
        new_window_scale ==
            RMin(RMin(Rat(viewer_width, image_width),
                      Rat(viewer_height, image_height)), R(1))
        new_image_scale == RMul(new_window_scale, new_viewer_scale)
        scaled_image_width == RMul(R(image_width), new_image_scale)
        scaled_image_height == RMul(R(image_height), new_image_scale)
        main_viewer_offset ==
            <<Round(RDiv(RSub(R(viewer_width), scaled_image_width), R(2))),
              Round(RDiv(RSub(R(viewer_height), scaled_image_height), R(2)))>>
        seeded == ~Has(s.viewer_offset)
    IN  [s EXCEPT !.main_offset = main_viewer_offset,
                  !.viewer_offset = IF seeded THEN Some(main_viewer_offset) ELSE @,
                  !.margin = IF seeded THEN ZeroMargin ELSE @,
                  !.viewer_scale = new_viewer_scale,
                  !.window_scale = new_window_scale,
                  !.image_scale = new_image_scale,
                  !.scale = Some(RDiv(new_viewer_scale, viewer_scale_0))]

\* e is the window (width, height); the viewer is the window less its chrome.
window_resized(s, e) ==
    update_scale([s EXCEPT !.viewer_size =
                      <<e[1] - ChromeWidth, e[2] - ChromeHeight>>], R(1))

viewer_interaction_start(s, local_focal_point) ==
    [s EXCEPT !.start_cursor = Some(local_focal_point),
              !.start_scale = Some(s.viewer_scale),
              !.start_offset = s.viewer_offset]

\* e_scale = 1: a pan to local_focal_point; otherwise a zoom by e_scale.
viewer_interaction_update(s, e_scale, local_focal_point) ==
    IF e_scale = R(1) THEN [s EXCEPT !.move = Some(local_focal_point)]
    ELSE update_scale(s, e_scale)

\* One axis of the clamping of viewer_interaction_end: the margins before and
\* after the image on the axis, the offset v, the sizes of the bounding box and
\* of the scaled image, and the bounds.  Returns <<before, after, v>>.
ClampAxisFree(margin_lo, margin_hi, v, box, scaled, bound_lo, bound_hi) ==
    <<margin_lo, margin_hi, v>>

ClampAxis(margin_lo, margin_hi, v, box, scaled, bound_lo, bound_hi) ==
    IF RLt(margin_lo, R(0)) THEN <<R(0), RSub(box, scaled), bound_lo>>
    ELSE IF RLt(margin_hi, R(0))
         THEN <<RSub(box, scaled), R(0), RSub(bound_hi, scaled)>>
    ELSE <<margin_lo, margin_hi, v>>

\* The movement bounding box of the image: <<left, top, right, bottom>>,
\* its width and height, the scaled image width and height.
BoundingBox(s) ==
    LET scaled_image_width == RMul(R(Val(s.image_size)[1]), s.image_scale)
        scaled_image_height == RMul(R(Val(s.image_size)[2]), s.image_scale)
        viewer_width == R(s.viewer_size[1])
        viewer_height == R(s.viewer_size[2])
        bounding_box_width ==
            RAdd(RMul(viewer_width, RSub(s.viewer_scale, R(1))), scaled_image_width)
        bounding_box_height ==
            RAdd(RMul(viewer_height, RSub(s.viewer_scale, R(1))), scaled_image_height)
        bx == RDiv(RSub(viewer_width, bounding_box_width), R(2))
        by == RDiv(RSub(viewer_height, bounding_box_height), R(2))
    IN  [left |-> R(Round(bx)), top |-> R(Round(by)),
         right |-> R(Round(RAdd(bx, bounding_box_width))),
         bottom |-> R(Round(RAdd(by, bounding_box_height))),
         width |-> bounding_box_width, height |-> bounding_box_height,
         scaled_width |-> scaled_image_width,
         scaled_height |-> scaled_image_height]

\* No gesture is at the limit.
ScaleLimitNever(s) == FALSE

\* Scale limit check
ScaleLimit(s) ==
    /\ s.start_scale = Some(R(MaxViewerScale))
    /\ s.viewer_scale = R(MaxViewerScale)

\* The "Moving" branch of viewer_interaction_end.
EndMove(s) ==
    LET b == BoundingBox(s)
        move_x == Val(s.move)[1] - Val(s.start_cursor)[1]
        move_y == Val(s.move)[2] - Val(s.start_cursor)[2]
        margin_0 == s.margin
        h == ClampAxis(RAdd(margin_0.left, R(move_x)),
                       RSub(margin_0.right, R(move_x)),
                       R(Val(s.viewer_offset)[1] + move_x),
                       b.width, b.scaled_width, b.left, b.right)
        v == ClampAxis(RAdd(margin_0.top, R(move_y)),
                       RSub(margin_0.bottom, R(move_y)),
                       R(Val(s.viewer_offset)[2] + move_y),
                       b.height, b.scaled_height, b.top, b.bottom)
    IN  [s EXCEPT !.margin = [left |-> h[1], top |-> v[1],
                              right |-> h[2], bottom |-> v[2]],
                  !.viewer_offset = Some(<<Round(h[3]), Round(v[3])>>),
                  !.move = Absent]

\* A "Scaling" branch that leaves offset and margins alone in the main
\* scale state.
EndScaleNoSnap(s) ==
    LET b == BoundingBox(s)
        start == Val(s.start_offset)
        x_scale_viewer_offset ==
            RMul(R(Val(s.start_cursor)[1] - start[1]), RSub(R(1), Val(s.scale)))
        y_scale_viewer_offset ==
            RMul(R(Val(s.start_cursor)[2] - start[2]), RSub(R(1), Val(s.scale)))
        x0 == RAdd(R(start[1]), x_scale_viewer_offset)
        y0 == RAdd(R(start[2]), y_scale_viewer_offset)
        h == ClampAxis(RSub(x0, b.left),
                       RSub(b.right, RAdd(x0, b.scaled_width)),
                       R(Val(s.viewer_offset)[1] + Round(x_scale_viewer_offset)),
                       b.width, b.scaled_width, b.left, b.right)
        v == ClampAxis(RSub(y0, b.top),
                       RSub(b.bottom, RAdd(y0, b.scaled_height)),
                       R(Val(s.viewer_offset)[2] + Round(y_scale_viewer_offset)),
                       b.height, b.scaled_height, b.top, b.bottom)
        main_state ==
            RoundDigits(s.image_scale, ScaleDigits)
                = RoundDigits(s.window_scale, ScaleDigits)
    IN  IF main_state
        THEN [s EXCEPT !.scale = Absent]
        ELSE [s EXCEPT !.margin = [left |-> h[1], top |-> v[1],
                                   right |-> h[2], bottom |-> v[2]],
                       !.viewer_offset = Some(<<Round(h[3]), Round(v[3])>>),
                       !.scale = Absent]

\* The "Scaling" branch of viewer_interaction_end.
EndScale(s) ==
    LET b == BoundingBox(s)
        start == Val(s.start_offset)
        x_scale_viewer_offset ==
            RMul(R(Val(s.start_cursor)[1] - start[1]), RSub(R(1), Val(s.scale)))
        y_scale_viewer_offset ==
            RMul(R(Val(s.start_cursor)[2] - start[2]), RSub(R(1), Val(s.scale)))
        x0 == RAdd(R(start[1]), x_scale_viewer_offset)
        y0 == RAdd(R(start[2]), y_scale_viewer_offset)
        h == ClampAxis(RSub(x0, b.left),
                       RSub(b.right, RAdd(x0, b.scaled_width)),
                       R(Val(s.viewer_offset)[1] + Round(x_scale_viewer_offset)),
                       b.width, b.scaled_width, b.left, b.right)
        v == ClampAxis(RSub(y0, b.top),
                       RSub(b.bottom, RAdd(y0, b.scaled_height)),
                       R(Val(s.viewer_offset)[2] + Round(y_scale_viewer_offset)),
                       b.height, b.scaled_height, b.top, b.bottom)
        main_state ==
            RoundDigits(s.image_scale, ScaleDigits)
                = RoundDigits(s.window_scale, ScaleDigits)
    IN  IF main_state
        THEN [s EXCEPT !.margin = ZeroMargin,
                       !.viewer_offset = Some(s.main_offset),
                       !.scale = Absent]
        ELSE [s EXCEPT !.margin = [left |-> h[1], top |-> v[1],
                                   right |-> h[2], bottom |-> v[2]],
                       !.viewer_offset = Some(<<Round(h[3]), Round(v[3])>>),
                       !.scale = Absent]

\* Click coordinates that forget where the image lies in the viewer.
ClickCoordNoOffset(s) ==
    <<Round(RDiv(R(Val(s.start_cursor)[1]), s.image_scale)),
      Round(RDiv(R(Val(s.start_cursor)[2]), s.image_scale))>>

\* Click coordinates relative to the real image scale.
ClickCoord(s) ==
    LET offset == Val(s.viewer_offset)
    IN  <<Round(RDiv(R(Val(s.start_cursor)[1] - offset[1]), s.image_scale)),
          Round(RDiv(R(Val(s.start_cursor)[2] - offset[2]), s.image_scale))>>

\* ---------------------------------------------------------- the database
\* image_id of the image at an index of the sample (table images).
ImageId(index) == index + 1

RECURSIVE SelectRows(_, _)
\* SELECT * FROM mezo_data WHERE image_id = ?  (rows in rowid order)
SelectRows(rows, image_id) ==
    IF rows = <<>> THEN <<>>
    ELSE IF Head(rows).image_id = image_id
         THEN <<Head(rows)>> \o SelectRows(Tail(rows), image_id)
    ELSE SelectRows(Tail(rows), image_id)

RECURSIVE DeleteRow(_, _)
\* DELETE FROM mezo_data WHERE mezo_id = ?
DeleteRow(rows, mezo_id) ==
    IF rows = <<>> THEN <<>>
    ELSE IF Head(rows).mezo_id = mezo_id THEN DeleteRow(Tail(rows), mezo_id)
    ELSE <<Head(rows)>> \o DeleteRow(Tail(rows), mezo_id)

get_mezo_data(s, image_id) ==
    [s EXCEPT !.mezo_data = SelectRows(s.db, image_id)]

\* diameter2 is diameter^2; square = 0.25 * pi * diameter^2 is kept in units
\* of pi / 4.  db_ok: whether the INSERT succeeds (sqlite3.Error otherwise).
add_mezo_to_db(s, center, diameter2, db_ok) ==
    LET image_id == ImageId(s.image_index)
        row == [mezo_id |-> s.next_id, image_id |-> image_id,
                center |-> center, diameter2 |-> diameter2,
                square |-> diameter2]
    IN  IF db_ok
        THEN get_mezo_data([s EXCEPT !.db = Append(@, row),
                                     !.next_id = @ + 1,
                                     !.log = Append(@, <<"insert", row.mezo_id>>)],
                           image_id)
        ELSE s

\* ------------------------------------------------------------- the tools
\* A history that refuses the snapshot when it is full.
PushHistoryDropNewest(history, png) ==
    IF Len(history) >= HistoryDepth THEN history ELSE Append(history, png)

\* prev_masks.append(mask_base64); if len(prev_masks) > 3: del prev_masks[0]
PushHistory(history, png) ==
    LET appended == Append(history, png)
    IN  IF Len(appended) > HistoryDepth THEN Tail(appended) ELSE appended

\* The snapshot is taken after the circle was painted.
add_mezo_to_viewer_late(s, center, diameter2, recursive) ==
    LET painted == PaintMezo(s.mask, center, diameter2)
        s1 == IF recursive THEN s
              ELSE [s EXCEPT !.prev_masks = Append(@, PngEncode(painted)),
                             !.log = Append(@, <<"push", 0>>)]
    IN  SaveMask(s1, painted)

add_mezo_to_viewer(s, center, diameter2, recursive) ==
    LET s1 == IF recursive THEN s
              ELSE [s EXCEPT !.prev_masks = PushHistory(@, PngEncode(s.mask)),
                             !.log = Append(@, <<"push", 0>>)]
    IN  SaveMask(s1, PaintMezo(s1.mask, center, diameter2))

\* A pop from the wrong end: <<oldest snapshot, the rest>>.
PopHistoryOldest(history) == <<history[1], Tail(history)>>

\* img = prev_masks.pop(): <<img, prev_masks afterwards>>
PopHistory(history) ==
    <<history[Len(history)], SubSeq(history, 1, Len(history) - 1)>>

RECURSIVE SumOf(_, _)
\* Sum of coordinate k over a set of pixels.
SumOf(set, k) ==
    IF set = {} THEN 0
    ELSE LET p == CHOOSE q \in set : TRUE
         IN  p[k] + SumOf(set \ {p}, k)

RECURSIVE MaxOf(_)
MaxOf(set) ==
    LET x == CHOOSE y \in set : TRUE
    IN  IF set = {x} THEN x
        ELSE LET m == MaxOf(set \ {x}) IN IF x > m THEN x ELSE m

\* The binary mask the predictor answers a click at coord with, as the set of
\* its pixels: nothing, the clicked pixel, or the pixel with its two neighbours
\* in the row (when they are pixels of the image).
SaMask(answer, coord) ==
    LET row == {<<coord[1] - 1, coord[2]>>, coord, <<coord[1] + 1, coord[2]>>}
    IN  IF answer = "point" THEN {coord} \cap Pixels
        ELSE IF answer = "row" /\ row \subseteq Pixels THEN row
        ELSE {}

\* A tool that does without the predictor: a circle of diameter 0 at the click.
magic_select_fallback(s, coord, answer, db_ok) ==
    add_mezo_to_viewer(add_mezo_to_db(s, coord, 0, db_ok), coord, 0, FALSE)

\* answer: what the predictor returns (see SaMask).  An empty mask makes the
\* centroid NaN and round() raise; a missing predictor raises as well: the
\* handler ends there and nothing was changed.
magic_select(s, coord, answer, db_ok) ==
    IF ~Has(s.sam_model) \/ SaMask(answer, coord) = {} THEN s
    ELSE
    LET sa_mask == SaMask(answer, coord)
        n == Cardinality(sa_mask)
        sum_x == SumOf(sa_mask, 1)
        sum_y == SumOf(sa_mask, 2)
        x == Round(Rat(sum_x, n))
        y == Round(Rat(sum_y, n))
        \* (n * distance to the centroid)^2, its maximum over the mask
        far == MaxOf({(n * p[1] - sum_x) * (n * p[1] - sum_x)
                        + (n * p[2] - sum_y) * (n * p[2] - sum_y) : p \in sa_mask})
        diameter2 == (4 * far) \div (n * n)
    IN  add_mezo_to_viewer(add_mezo_to_db(s, <<x, y>>, diameter2, db_ok),
                           <<x, y>>, diameter2, FALSE)

\* A first click that draws its center marker on the mask.
manual_select_marks_mask(s, coord, db_ok) ==
    IF ~Has(s.current_coord)
    THEN SaveMask([s EXCEPT !.current_coord = Some(coord)],
                  PaintMezo(s.mask, coord, 0))
    ELSE
    LET center == Val(s.current_coord)
        diameter2 == 4 * Dist2(coord, center)
        s1 == [s EXCEPT !.current_coord = Absent]
    IN  add_mezo_to_viewer(add_mezo_to_db(s1, center, diameter2, db_ok),
                           center, diameter2, FALSE)

\* A circle around the second click, through the first.
manual_select_around_second(s, coord, db_ok) ==
    IF ~Has(s.current_coord)
    THEN [s EXCEPT !.current_coord = Some(coord)]
    ELSE
    LET diameter2 == 4 * Dist2(coord, Val(s.current_coord))
        s1 == [s EXCEPT !.current_coord = Absent]
    IN  add_mezo_to_viewer(add_mezo_to_db(s1, coord, diameter2, db_ok),
                           coord, diameter2, FALSE)

manual_select(s, coord, db_ok) ==
    IF ~Has(s.current_coord)
    THEN [s EXCEPT !.current_coord = Some(coord)]
    ELSE
    LET center == Val(s.current_coord)
        diameter2 == 4 * Dist2(coord, center)
        s1 == [s EXCEPT !.current_coord = Absent]
    IN  add_mezo_to_viewer(add_mezo_to_db(s1, center, diameter2, db_ok),
                           center, diameter2, FALSE)

circles_intersect(mezo1, mezo2) ==
    SqrtLtSum(4 * Dist2(mezo1.center, mezo2.center),
              mezo1.diameter2, mezo2.diameter2)

remove_mezo_from_viewer(s, row) ==
    [SaveMask(s, EraseMezo(s.mask, row.center, row.diameter2))
        EXCEPT !.log = Append(@, <<"erase", row.mezo_id>>)]

\* A copy that keeps the visited row.
PopRowKeeps(all_mezo, i) ==
    all_mezo

\* all_mezo without its i-th row (new_all_mezo.pop(i))
PopRow(all_mezo, i) ==
    [j \in 1 .. Len(all_mezo) - 1 |-> IF j < i THEN all_mezo[j] ELSE all_mezo[j + 1]]

RECURSIVE recursive_removing(_, _, _)
RECURSIVE RemovingFrom(_, _, _, _)
RECURSIVE RemovingFromDirect(_, _, _, _)
\* A loop that erases the circles that meet start_mezo and goes no further.
RemovingFromDirect(s, start_mezo, all_mezo, i) ==
    IF i > Len(all_mezo) THEN s
    ELSE IF circles_intersect(start_mezo, all_mezo[i])
         THEN RemovingFromDirect(remove_mezo_from_viewer(s, all_mezo[i]),
                                 start_mezo, all_mezo, i + 1)
    ELSE RemovingFromDirect(s, start_mezo, all_mezo, i + 1)

\* The loop of recursive_removing, from row i on.
RemovingFrom(s, start_mezo, all_mezo, i) ==
    IF i > Len(all_mezo) THEN s
    ELSE IF circles_intersect(start_mezo, all_mezo[i])
         THEN RemovingFrom(
                  recursive_removing(remove_mezo_from_viewer(s, all_mezo[i]),
                                     all_mezo[i], PopRow(all_mezo, i)),
                  start_mezo, all_mezo, i + 1)
    ELSE RemovingFrom(s, start_mezo, all_mezo, i + 1)

recursive_removing(s, start_mezo, all_mezo) ==
    RemovingFrom(s, start_mezo, all_mezo, 1)

RECURSIVE recursive_adding(_, _, _)
RECURSIVE AddingFrom(_, _, _, _)
\* The loop of recursive_adding, from row i on.
AddingFrom(s, start_mezo, all_mezo, i) ==
    IF i > Len(all_mezo) THEN s
    ELSE IF circles_intersect(start_mezo, all_mezo[i])
         THEN AddingFrom(
                  recursive_adding(
                      [add_mezo_to_viewer(s, all_mezo[i].center,
                                          all_mezo[i].diameter2, TRUE)
                          EXCEPT !.log = Append(@, <<"paint", all_mezo[i].mezo_id>>)],
                      all_mezo[i], PopRow(all_mezo, i)),
                  start_mezo, all_mezo, i + 1)
    ELSE AddingFrom(s, start_mezo, all_mezo, i + 1)

recursive_adding(s, start_mezo, all_mezo) ==
    AddingFrom(s, start_mezo, all_mezo, 1)

\* A fetch of the oldest row of the open image for 'undo'.
FetchMezoOldest(s, undo, key) ==
    LET rows == SelectRows(s.db, ImageId(s.image_index))
        found == IF undo THEN rows
                 ELSE SelectSeq(s.db, LAMBDA r : r.mezo_id = Val(key))
    IN  IF found = <<>> THEN <<>> ELSE Some(found[1])

\* A fetch that takes the newest row of the table for 'undo', whatever its
\* image.
FetchMezoAnyImage(s, undo, key) ==
    LET found == IF undo THEN s.db
                 ELSE SelectSeq(s.db, LAMBDA r : r.mezo_id = Val(key))
    IN  IF found = <<>> THEN <<>>
        ELSE IF undo THEN Some(found[Len(found)]) ELSE Some(found[1])

\* The row remove_mezo fetches: for 'undo' the row of the open image with the
\* highest mezo_id, otherwise the row with mezo_id = key.  <<>> when none.
FetchMezo(s, undo, key) ==
    LET rows == SelectRows(s.db, ImageId(s.image_index))
        found == IF undo THEN rows
                 ELSE SelectSeq(s.db, LAMBDA r : r.mezo_id = Val(key))
    IN  IF found = <<>> THEN <<>>
        ELSE IF undo THEN Some(found[Len(found)]) ELSE Some(found[1])

\* A removal that restores the last snapshot whenever there is one.
remove_mezo_always_pops(s, undo, key) ==
    IF ~undo /\ ~Has(key) THEN s
    ELSE IF ~Has(FetchMezo(s, undo, key)) THEN s
    ELSE
    LET image_id == ImageId(s.image_index)
        mezo_to_remove == Val(FetchMezo(s, undo, key))
        s1 == get_mezo_data(
                  [s EXCEPT !.db = DeleteRow(@, mezo_to_remove.mezo_id),
                            !.log = Append(@, <<"delete", mezo_to_remove.mezo_id>>)],
                  image_id)
        rows == SelectRows(s1.db, image_id)
    IN  IF Len(s1.prev_masks) > 0
        THEN LET img == PopHistory(s1.prev_masks)[1]
                 last_mask == PngDecode(img)
             IN  [s1 EXCEPT
                     !.prev_masks = PopHistory(@)[2],
                     !.log = Append(@, <<"restore", mezo_to_remove.mezo_id>>),
                     !.mask = last_mask,
                     !.mask_files[s.image_index] = Some(PngEncode(last_mask))]
        ELSE recursive_adding(
                 recursive_removing(remove_mezo_from_viewer(s1, mezo_to_remove),
                                    mezo_to_remove, rows),
                 mezo_to_remove, rows)

\* remove_mezo(key): undo = TRUE for key 'undo'; otherwise key is <<>> (None)
\* or <<mezo_id>>.
remove_mezo(s, undo, key) ==
    IF ~undo /\ ~Has(key) THEN s
    ELSE IF ~Has(FetchMezo(s, undo, key)) THEN s
    ELSE
    LET image_id == ImageId(s.image_index)
        mezo_to_remove == Val(FetchMezo(s, undo, key))
        s1 == get_mezo_data(
                  [s EXCEPT !.db = DeleteRow(@, mezo_to_remove.mezo_id),
                            !.log = Append(@, <<"delete", mezo_to_remove.mezo_id>>)],
                  image_id)
        rows == SelectRows(s1.db, image_id)
    IN  IF Len(s1.prev_masks) > 0 /\ undo
        THEN LET img == PopHistory(s1.prev_masks)[1]
                 last_mask == PngDecode(img)
             IN  [s1 EXCEPT
                     !.prev_masks = PopHistory(@)[2],
                     !.log = Append(@, <<"restore", mezo_to_remove.mezo_id>>),
                     !.mask = last_mask,
                     !.mask_files[s.image_index] = Some(PngEncode(last_mask))]
        ELSE recursive_adding(
                 recursive_removing(remove_mezo_from_viewer(s1, mezo_to_remove),
                                    mezo_to_remove, rows),
                 mezo_to_remove, rows)

\* A search that settles for the newest row when the click is inside none.
FindMezoOrNewest(rows, coord, i) ==
    LET hits == {j \in 1 .. i : InCircle(coord, rows[j].center, rows[j].diameter2)}
    IN  IF i = 0 THEN <<>>
        ELSE IF hits = {} THEN Some(rows[i].mezo_id)
        ELSE Some(rows[MaxOf(hits)].mezo_id)

RECURSIVE FindMezo(_, _, _)
\* The search loop of remove_tool over mezo_data, last row first.
FindMezo(rows, coord, i) ==
    IF i = 0 THEN <<>>
    ELSE IF InCircle(coord, rows[i].center, rows[i].diameter2)
         THEN Some(rows[i].mezo_id)
    ELSE FindMezo(rows, coord, i - 1)

\* A search over mezo_data, first row first.
remove_tool_oldest_first(s, coord) ==
    LET hits == {j \in 1 .. Len(s.mezo_data) :
                    InCircle(coord, s.mezo_data[j].center, s.mezo_data[j].diameter2)}
    IN  remove_mezo(s, FALSE,
                    IF hits = {} THEN <<>>
                    ELSE Some(s.mezo_data[CHOOSE j \in hits :
                                              \A k \in hits : j <= k].mezo_id))

remove_tool(s, coord) ==
    remove_mezo(s, FALSE, FindMezo(s.mezo_data, coord, Len(s.mezo_data)))

\* --------------------------------------------------------- the handlers
Tools == <<"Magic select", "Manual select", "Remove tool">>
NoTool == "None"

\* "Click or scale limit handling" and the branches before it.
viewer_interaction_end(s, answer, db_ok) ==
    IF Has(s.move) THEN EndMove(s)
    ELSE IF Has(s.scale) /\ ~ScaleLimit(s) THEN EndScale(s)
    ELSE IF ScaleLimit(s) THEN s
    ELSE LET coord == ClickCoord(s)
         IN  IF s.tool = "Magic select"
                 THEN magic_select([s EXCEPT !.log = <<<<"click", s.tool>>>>],
                                   coord, answer, db_ok)
             ELSE IF s.tool = "Manual select"
                 THEN manual_select([s EXCEPT !.log = <<<<"click", s.tool>>>>],
                                    coord, db_ok)
             ELSE IF s.tool = "Remove tool"
                 THEN remove_tool([s EXCEPT !.log = <<<<"click", s.tool>>>>], coord)
             ELSE [s EXCEPT !.log = <<<<"click", s.tool>>>>]

\* An open_image that leaves the tool and the undo history as they are.
open_image_keep(s, index) ==
    LET image_id == ImageId(index)
        s1 == [s EXCEPT !.viewer_offset = Absent,
                        !.start_cursor = Absent,
                        !.start_scale = Absent,
                        !.start_offset = Absent,
                        !.current_coord = Absent,
                        !.sam_model = Absent]
        s2 == get_mezo_data(s1, image_id)
        s3 == [s2 EXCEPT !.image_size = Some(<<ImageWidth, ImageHeight>>),
                         !.mask = IF Has(s.mask_files[index])
                                  THEN PngDecode(Val(s.mask_files[index]))
                                  ELSE TransparentMask,
                         !.viewer_scale = R(1)]
    IN  window_resized(s3, s.page_size)

\* An open_image that leaves the predictor in the session.
open_image_keeps_predictor(s, index) ==
    LET image_id == ImageId(index)
        s1 == [s EXCEPT !.viewer_offset = Absent,
                        !.tool = NoTool,
                        !.start_cursor = Absent,
                        !.start_scale = Absent,
                        !.start_offset = Absent,
                        !.current_coord = Absent]
        s2 == get_mezo_data(s1, image_id)
        s3 == [s2 EXCEPT !.image_size = Some(<<ImageWidth, ImageHeight>>),
                         !.mask = IF Has(s.mask_files[index])
                                  THEN PngDecode(Val(s.mask_files[index]))
                                  ELSE TransparentMask,
                         !.viewer_scale = R(1)]
    IN  [window_resized(s3, s.page_size) EXCEPT !.prev_masks = <<>>]

open_image(s, index) ==
    LET image_id == ImageId(index)
        s1 == [s EXCEPT !.viewer_offset = Absent,
                        !.tool = NoTool,
                        !.start_cursor = Absent,
                        !.start_scale = Absent,
                        !.start_offset = Absent,
                        !.current_coord = Absent,
                        !.sam_model = Absent]
        s2 == get_mezo_data(s1, image_id)
        s3 == [s2 EXCEPT !.image_size = Some(<<ImageWidth, ImageHeight>>),
                         !.mask = IF Has(s.mask_files[index])
                                  THEN PngDecode(Val(s.mask_files[index]))
                                  ELSE TransparentMask,
                         !.viewer_scale = R(1)]
    IN  [window_resized(s3, s.page_size) EXCEPT !.prev_masks = <<>>]

previous_image(s) ==
    IF s.image_index > 0
    THEN open_image([s EXCEPT !.image_index = @ - 1], s.image_index - 1)
    ELSE s

next_image(s) ==
    IF s.image_index < ImageCount - 1
    THEN open_image([s EXCEPT !.image_index = @ + 1], s.image_index + 1)
    ELSE s

\* The predictor is fitted on the image open at the time: <<image_index>>.
sam_init(s) ==
    IF ~Has(s.sam_model) THEN [s EXCEPT !.sam_model = Some(s.image_index)] ELSE s

\* A selection that leaves a pending center where it is.
change_tool_keep_pending(s, index) ==
    LET s1 == [s EXCEPT !.tool = Tools[index + 1],
                        !.log = <<<<"tool", Tools[index + 1]>>>>]
    IN  IF Tools[index + 1] = "Magic select" THEN sam_init(s1) ELSE s1

change_tool(s, index) ==
    LET s1 == [s EXCEPT !.tool = Tools[index + 1], !.current_coord = Absent,
                        !.log = IF Has(s.current_coord)
                                    THEN <<<<"tool", Tools[index + 1]>>,
                                           <<"discard", "current_coord">>>>
                                    ELSE <<<<"tool", Tools[index + 1]>>>>]
    IN  IF Tools[index + 1] = "Magic select" THEN sam_init(s1) ELSE s1

reset_viewer(s) ==
    window_resized([s EXCEPT !.viewer_scale = R(1),
                             !.image_scale = s.window_scale,
                             !.viewer_offset = Absent,
                             !.start_cursor = Absent,
                             !.start_scale = Absent,
                             !.start_offset = Absent],
                   s.page_size)

\* An Escape that drops the pending center and the tool at once.
on_keyboard_single_stage(s, key, ctrl) ==
    IF key = "Escape"
        THEN IF Has(s.current_coord)
                 THEN [s EXCEPT !.current_coord = Absent, !.tool = NoTool,
                                !.log = <<<<"escape", "current_coord">>>>]
             ELSE [s EXCEPT !.tool = NoTool, !.log = <<<<"escape", "tool">>>>]
    ELSE IF key = "1" THEN change_tool(s, 0)
    ELSE IF key = "2" THEN change_tool(s, 1)
    ELSE IF key = "3" THEN change_tool(s, 2)
    ELSE IF key = "Z" /\ ctrl
        THEN LET ready_to_drop == ~Has(s.current_coord) /\ Len(s.mezo_data) > 0
             IN  IF ready_to_drop THEN remove_mezo(s, TRUE, <<>>) ELSE s
    ELSE s

\* An Escape that clears the tool before the pending center.
on_keyboard_tool_first(s, key, ctrl) ==
    IF key = "Escape"
        THEN IF Has(s.current_coord)
                 THEN [s EXCEPT !.tool = NoTool, !.log = <<<<"escape", "tool">>>>]
             ELSE [s EXCEPT !.tool = NoTool, !.log = <<<<"escape", "tool">>>>]
    ELSE IF key = "1" THEN change_tool(s, 0)
    ELSE IF key = "2" THEN change_tool(s, 1)
    ELSE IF key = "3" THEN change_tool(s, 2)
    ELSE IF key = "Z" /\ ctrl
        THEN LET ready_to_drop == ~Has(s.current_coord) /\ Len(s.mezo_data) > 0
             IN  IF ready_to_drop THEN remove_mezo(s, TRUE, <<>>) ELSE s
    ELSE s

\* A key handler whose Ctrl+Z does not look at the pending center.
on_keyboard_undo_while_pending(s, key, ctrl) ==
    IF key = "Escape"
        THEN IF Has(s.current_coord)
                 THEN [s EXCEPT !.current_coord = Absent,
                                !.log = <<<<"escape", "current_coord">>>>]
             ELSE [s EXCEPT !.tool = NoTool, !.log = <<<<"escape", "tool">>>>]
    ELSE IF key = "1" THEN change_tool(s, 0)
    ELSE IF key = "2" THEN change_tool(s, 1)
    ELSE IF key = "3" THEN change_tool(s, 2)
    ELSE IF key = "Z" /\ ctrl
        THEN IF Len(s.mezo_data) > 0 THEN remove_mezo(s, TRUE, <<>>) ELSE s
    ELSE s

on_keyboard(s, key, ctrl) ==
    IF key = "Escape"
        THEN IF Has(s.current_coord)
                 THEN [s EXCEPT !.current_coord = Absent,
                                !.log = <<<<"escape", "current_coord">>>>]
             ELSE [s EXCEPT !.tool = NoTool, !.log = <<<<"escape", "tool">>>>]
    ELSE IF key = "1" THEN change_tool(s, 0)
    ELSE IF key = "2" THEN change_tool(s, 1)
    ELSE IF key = "3" THEN change_tool(s, 2)
    ELSE IF key = "Z" /\ ctrl
        THEN LET ready_to_drop == ~Has(s.current_coord) /\ Len(s.mezo_data) > 0
             IN  IF ready_to_drop THEN remove_mezo(s, TRUE, <<>>) ELSE s
    ELSE s

\* ------------------------------------------------------ history variables
HasEvent(log, kind) == \E i \in 1 .. Len(log) : log[i][1] = kind

\* mezo_id of the first event of a kind in a log.
EventId(log, kind) ==
    log[CHOOSE i \in 1 .. Len(log) :
            /\ log[i][1] = kind
            /\ \A j \in 1 .. i - 1 : log[j][1] # kind][2]

RowOf(rows, mezo_id) == SelectSeq(rows, LAMBDA r : r.mezo_id = mezo_id)[1]

\* What a handler that took the session from s to t did to the annotations:
\* "create" (a snapshot was pushed and a circle painted), "undo" (Ctrl+Z
\* deleted a row), "remove" (the Remove tool deleted a row), "open"
\* (open_image), or "" (nothing).
OpKind(handler, t) ==
    IF handler = "open_image" THEN "open"
    ELSE IF HasEvent(t.log, "push") THEN "create"
    ELSE IF HasEvent(t.log, "delete")
         THEN IF handler = "on_keyboard" THEN "undo" ELSE "remove"
    ELSE ""

\* last_log: the calls made by the last handler that dispatched a click
\* (<<"click", tool>>) or changed the annotations (<<kind, mezo_id>>);
\* pushed: the masks pushed onto the undo history and not popped since, however
\* many there are; pushed_for: for each mask of pushed, the mezo_id of the row
\* inserted by the creation that pushed it (0 when the insert was refused);
\* create_run: the length of the last run of consecutive creations; undo_run:
\* the Ctrl+Z deletions since the last operation that was not one.
History(handler, s, t) ==
    LET kind == OpKind(handler, t)
    IN  IF kind = ""
        THEN /\ last_log' = IF t.log # <<>> THEN t.log ELSE last_log
             /\ UNCHANGED <<calls, last_op, last_mezo, pushed, pushed_for, create_run, undo_run>>
        ELSE /\ UNCHANGED calls
             /\ last_op' = kind
             /\ last_log' = t.log
             /\ last_mezo' =
                    IF HasEvent(t.log, "delete")
                        THEN Some(RowOf(s.db, EventId(t.log, "delete")))
                    ELSE IF HasEvent(t.log, "insert")
                        THEN Some(RowOf(t.db, EventId(t.log, "insert")))
                    ELSE <<>>
             /\ pushed' =
                    IF kind = "open" THEN <<>>
                    ELSE IF HasEvent(t.log, "push") THEN Append(pushed, s.mask)
                    ELSE IF HasEvent(t.log, "restore")
                        THEN SubSeq(pushed, 1, Len(pushed) - 1)
                    ELSE pushed
             /\ pushed_for' =
                    IF kind = "open" THEN <<>>
                    ELSE IF HasEvent(t.log, "push")
                        THEN Append(pushed_for,
                                    IF HasEvent(t.log, "insert")
                                        THEN EventId(t.log, "insert") ELSE 0)
                    ELSE IF HasEvent(t.log, "restore")
                        THEN SubSeq(pushed_for, 1, Len(pushed_for) - 1)
                    ELSE pushed_for
             /\ create_run' =
                    IF kind = "create"
                        THEN IF last_op = "create" THEN create_run + 1 ELSE 1
                    ELSE IF kind = "undo" THEN create_run
                    ELSE 0
             /\ undo_run' =
                    IF kind = "undo" THEN undo_run + 1 ELSE 0

\* ----------------------------------------------------------------- Init
\* The session before open_image ran for the first time.
BlankSession(window, first_id) ==
    [page_size |-> window, image_index |-> 0, image_size |-> Absent,
     viewer_size |-> <<0, 0>>, viewer_scale |-> R(1), window_scale |-> R(1),
     image_scale |-> R(1), main_offset |-> <<0, 0>>, viewer_offset |-> Absent,
     margin |-> ZeroMargin, scale |-> Absent, move |-> Absent,
     start_cursor |-> Absent, start_scale |-> Absent, start_offset |-> Absent,
     tool |-> NoTool, current_coord |-> Absent, sam_model |-> Absent,
     mezo_data |-> <<>>, mask |-> TransparentMask, prev_masks |-> <<>>,
     db |-> <<>>, next_id |-> first_id,
     mask_files |-> [i \in 0 .. ImageCount - 1 |-> Absent],
     log |-> <<>>]

\* editor(page) opened image 0 of the sample, from the session `blank`.
\* No remove_mezo is running.
NoCalls ==
    [kind |-> "idle", start_mezo |-> <<>>, rows |-> <<>>, frames |-> <<>>,
     visited |-> <<>>]

InitFrom(blank) ==
    LET s == open_image(blank, 0)
    IN  /\ page_size = s.page_size
        /\ image_index = s.image_index
        /\ image_size = s.image_size
        /\ viewer_size = s.viewer_size
        /\ viewer_scale = s.viewer_scale
        /\ window_scale = s.window_scale
        /\ image_scale = s.image_scale
        /\ main_offset = s.main_offset
        /\ viewer_offset = s.viewer_offset
        /\ margin = s.margin
        /\ scale = s.scale
        /\ move = s.move
        /\ start_cursor = s.start_cursor
        /\ start_scale = s.start_scale
        /\ start_offset = s.start_offset
        /\ tool = s.tool
        /\ current_coord = s.current_coord
        /\ sam_model = s.sam_model
        /\ mezo_data = s.mezo_data
        /\ mask = s.mask
        /\ prev_masks = s.prev_masks
        /\ db = s.db
        /\ next_id = s.next_id
        /\ mask_files = s.mask_files
        /\ in_gesture = FALSE
        /\ calls = NoCalls
        /\ last_op = "open"
        /\ last_mezo = <<>>
        /\ last_log = <<>>
        /\ pushed = <<>>
        /\ pushed_for = <<>>
        /\ create_run = 0
        /\ undo_run = 0

\* A sample without annotations, in a window of size `window`; the next
\* mezo_id is first_id.
InitWith(window, first_id) == InitFrom(BlankSession(window, first_id))

\* -------------------------------------------------------------- actions
\* A handler ran between gestures and left the session t.
Handled(handler, t) ==
    /\ ~in_gesture
    /\ Store(t)
    /\ History(handler, Session, t)
    /\ UNCHANGED in_gesture

InteractionStart(local_focal_point) ==
    /\ ~in_gesture
    /\ Store(viewer_interaction_start(Session, local_focal_point))
    /\ in_gesture' = TRUE
    /\ UNCHANGED <<calls, last_op, last_mezo, last_log, pushed, pushed_for, create_run, undo_run>>

InteractionUpdate(e_scale, local_focal_point) ==
    /\ in_gesture
    /\ Store(viewer_interaction_update(Session, e_scale, local_focal_point))
    /\ UNCHANGED <<in_gesture, calls, last_op, last_mezo, last_log, pushed, pushed_for, create_run, undo_run>>

InteractionEnd(answer, db_ok) ==
    LET t == viewer_interaction_end(Session, answer, db_ok)
    IN  /\ in_gesture
        /\ t.next_id <= MaxId + 1
        /\ Store(t)
        /\ History("viewer_interaction_end", Session, t)
        /\ in_gesture' = FALSE

\* The end of a gesture while cursor.execute raises sqlite3.Error.  Without
\* deletions, the refused inserts so far are the snapshots pushed that have
\* no row.
InteractionEndFailing(answer) ==
    LET t == viewer_interaction_end(Session, answer, FALSE)
    IN  /\ in_gesture
        /\ Len(pushed) - Len(db) < MaxFailures
        /\ Store(t)
        /\ History("viewer_interaction_end", Session, t)
        /\ in_gesture' = FALSE

Toolbar(index) == Handled("change_tool", change_tool(Session, index))

Keyboard(key) == Handled("on_keyboard", on_keyboard(Session, key, TRUE))

NextImage ==
    /\ image_index < ImageCount - 1
    /\ Handled("open_image", next_image(Session))

PreviousImage ==
    /\ image_index > 0
    /\ Handled("open_image", previous_image(Session))

ResetViewer == Handled("reset_viewer", reset_viewer(Session))

WindowResized(e) ==
    Handled("window_resized", window_resized([Session EXCEPT !.page_size = e], e))

\* ------------------------------------------------------- specifications
\* The window leaves a border of one pixel around the image, which is shown
\* at its own size (window_scale = 1).
EditWindow == <<ImageWidth + 2 + ChromeWidth, ImageHeight + 2 + ChromeHeight>>

\* Taps on the first and on the middle pixel of the top row of the image.
EditTaps == {<<1, 1>>, <<(ImageWidth + 1) \div 2, 1>>}

\* Spec: Manual select on an image without annotations, with Escape and
\* Ctrl+Z; up to MaxId circles are created.
Init == InitWith(EditWindow, 1)

Next ==
    \/ \E p \in EditTaps : InteractionStart(p)
    \/ InteractionEnd("none", TRUE)
    \/ Toolbar(1)
    \/ \E k \in {"Escape", "Z"} : Keyboard(k)

Spec == Init /\ [][Next]_vars

\* What the predictor answers in SpecEdit (see SaMask).
Answers == {"row", "none"}

\* SpecEdit: the three tools, with Escape and Ctrl+Z; two circles can be
\* created (the database gave out the mezo_id below MaxId - 1 before).
InitEdit == InitWith(EditWindow, MaxId - 1)

NextEdit ==
    \/ \E p \in EditTaps : InteractionStart(p)
    \/ \E a \in Answers : InteractionEnd(a, TRUE)
    \/ \E i \in 0 .. 2 : Toolbar(i)
    \/ \E k \in {"Escape", "Z"} : Keyboard(k)

SpecEdit == InitEdit /\ [][NextEdit]_vars

\* SpecGeo: the Remove tool and Ctrl+Z on an image opened with three stored
\* circles, painted on its mask file in insertion order.
GeoCenters == {<<0, 0>>, <<(ImageWidth - 1) \div 2, 0>>, <<ImageWidth - 1, 0>>}
GeoDiameter2 == {4, 144, 196}
GeoTaps == EditTaps \cup {<<ImageWidth, 1>>}

StoredRows(circles) ==
    [i \in 1 .. Len(circles) |->
        [mezo_id |-> i, image_id |-> ImageId(0), center |-> circles[i][1],
         diameter2 |-> circles[i][2], square |-> circles[i][2]]]

InitGeo ==
    \E a, b, c \in GeoCenters \X GeoDiameter2 :
        LET rows == StoredRows(<<a, b, c>>)
        IN  InitFrom([BlankSession(EditWindow, 4) EXCEPT
                         !.db = rows,
                         !.mask_files[0] =
                             Some(PngEncode(PaintRows(rows, TransparentMask)))])

NextGeo ==
    \/ \E p \in GeoTaps : InteractionStart(p)
    \/ InteractionEnd("none", TRUE)
    \/ Toolbar(2)
    \/ Keyboard("Z")

SpecGeo == InitGeo /\ [][NextGeo]_vars

\* ------------------------------------------------ remove_mezo, step by step
\* remove_mezo(key) with a mezo_id as key, up to its first recursive call:
\* the row is deleted and erased, and recursive_removing is entered.
RemoveMezoCall(key) ==
    /\ ~in_gesture
    /\ calls.kind = "idle"
    /\ Has(FetchMezo(Session, FALSE, Some(key)))
    /\ LET image_id == ImageId(image_index)
           mezo_to_remove == Val(FetchMezo(Session, FALSE, Some(key)))
           s1 == get_mezo_data(
                     [Session EXCEPT !.db = DeleteRow(@, mezo_to_remove.mezo_id)],
                     image_id)
           rows == SelectRows(s1.db, image_id)
       IN  /\ Store(remove_mezo_from_viewer(s1, mezo_to_remove))
           /\ calls' = [kind |-> "erase", start_mezo |-> mezo_to_remove,
                        rows |-> rows,
                        frames |-> <<[start_mezo |-> mezo_to_remove,
                                      all_mezo |-> rows, i |-> 1]>>,
                        visited |-> <<>>]
    /\ UNCHANGED <<in_gesture, last_op, last_mezo, last_log, pushed,
                   pushed_for, create_run, undo_run>>

\* The innermost call of recursive_removing or recursive_adding.
TopCall == calls.frames[Len(calls.frames)]

\* The calls below the innermost one.
CallersOfTop == SubSeq(calls.frames, 1, Len(calls.frames) - 1)

\* The for loop of the innermost call is exhausted: the call returns.  When
\* the outermost recursive_removing returns, recursive_adding is entered;
\* when the outermost recursive_adding returns, the passes are over.
PassReturn ==
    /\ calls.kind \in {"erase", "paint"}
    /\ TopCall.i > Len(TopCall.all_mezo)
    /\ calls' =
           IF CallersOfTop # <<>> THEN [calls EXCEPT !.frames = CallersOfTop]
           ELSE IF calls.kind = "erase"
               THEN [calls EXCEPT
                        !.kind = "paint",
                        !.frames = <<[start_mezo |-> calls.start_mezo,
                                      all_mezo |-> calls.rows, i |-> 1]>>]
           ELSE [calls EXCEPT !.kind = "done", !.frames = <<>>]
    /\ UNCHANGED <<page_size, image_index, image_size, viewer_size,
                   viewer_scale, window_scale, image_scale, main_offset,
                   viewer_offset, margin, scale, move, start_cursor,
                   start_scale, start_offset, tool, current_coord, sam_model,
                   mezo_data, mask, prev_masks, db, next_id, mask_files,
                   in_gesture, last_op, last_mezo, last_log, pushed,
                   pushed_for, create_run, undo_run>>

\* The row of this iteration meets start_mezo: it is erased (painted) and
\* the function calls itself with the row and the copy without it.
PassVisit ==
    /\ calls.kind \in {"erase", "paint"}
    /\ TopCall.i <= Len(TopCall.all_mezo)
    /\ circles_intersect(TopCall.start_mezo, TopCall.all_mezo[TopCall.i])
    /\ Len(calls.frames) < RecursionLimit
    /\ LET row == TopCall.all_mezo[TopCall.i]
       IN  /\ Store(IF calls.kind = "erase"
                        THEN remove_mezo_from_viewer(Session, row)
                    ELSE add_mezo_to_viewer(Session, row.center,
                                            row.diameter2, TRUE))
           /\ calls' =
                  [calls EXCEPT
                      !.frames =
                          Append(Append(CallersOfTop,
                                        [TopCall EXCEPT !.i = @ + 1]),
                                 [start_mezo |-> row,
                                  all_mezo |-> PopRow(TopCall.all_mezo, TopCall.i),
                                  i |-> 1]),
                      !.visited = Append(@, <<calls.kind, row.mezo_id>>)]
    /\ UNCHANGED <<in_gesture, last_op, last_mezo, last_log, pushed,
                   pushed_for, create_run, undo_run>>

\* The row of this iteration does not meet start_mezo: next iteration.
PassSkip ==
    /\ calls.kind \in {"erase", "paint"}
    /\ TopCall.i <= Len(TopCall.all_mezo)
    /\ ~circles_intersect(TopCall.start_mezo, TopCall.all_mezo[TopCall.i])
    /\ calls' = [calls EXCEPT
                    !.frames = Append(CallersOfTop, [TopCall EXCEPT !.i = @ + 1])]
    /\ UNCHANGED <<page_size, image_index, image_size, viewer_size,
                   viewer_scale, window_scale, image_scale, main_offset,
                   viewer_offset, margin, scale, move, start_cursor,
                   start_scale, start_offset, tool, current_coord, sam_model,
                   mezo_data, mask, prev_masks, db, next_id, mask_files,
                   in_gesture, last_op, last_mezo, last_log, pushed,
                   pushed_for, create_run, undo_run>>

PassStep == PassReturn \/ PassVisit \/ PassSkip

\* remove_mezo returns to its caller.
RemoveMezoReturn ==
    /\ calls.kind = "done"
    /\ calls' = NoCalls
    /\ UNCHANGED <<page_size, image_index, image_size, viewer_size,
                   viewer_scale, window_scale, image_scale, main_offset,
                   viewer_offset, margin, scale, move, start_cursor,
                   start_scale, start_offset, tool, current_coord, sam_model,
                   mezo_data, mask, prev_masks, db, next_id, mask_files,
                   in_gesture, last_op, last_mezo, last_log, pushed,
                   pushed_for, create_run, undo_run>>

\* The diameters (squared) of the circles stored when the removal starts.
PassDiameter2 == {4, 144}

InitPass ==
    \E a, b, c \in GeoCenters \X PassDiameter2 :
        LET rows == StoredRows(<<a, b, c>>)
        IN  InitFrom([BlankSession(EditWindow, 4) EXCEPT
                         !.db = rows,
                         !.mask_files[0] =
                             Some(PngEncode(PaintRows(rows, TransparentMask)))])

NextPass ==
    \/ \E key \in 1 .. MaxId : RemoveMezoCall(key)
    \/ PassReturn
    \/ PassVisit
    \/ PassSkip
    \/ RemoveMezoReturn

\* The interpreter runs a call that has started until it returns.
SpecPass == InitPass /\ [][NextPass]_vars /\ WF_vars(PassStep)

\* SpecView: pans, zooms, gestures that do both, window resizes, resets of
\* the viewer and image changes; no tool is selected.
SmallWindow == <<(ImageWidth + 1) \div 2 + ChromeWidth, ImageHeight + ChromeHeight>>
ViewWindows == {EditWindow, SmallWindow}
ViewPoints == {<<1, 1>>, <<ImageWidth + 1, 1>>}
ZoomFactors == {Rat(15, 1), Rat(1, 15)}

InitView == InitWith(EditWindow, 1)

NextView ==
    \/ \E p \in ViewPoints : InteractionStart(p)
    \/ \E p \in ViewPoints : InteractionUpdate(R(1), p)
    \/ \E f \in ZoomFactors : InteractionUpdate(f, <<0, 0>>)
    \/ InteractionEnd("none", TRUE)
    \/ \E e \in ViewWindows : WindowResized(e)
    \/ ResetViewer
    \/ NextImage
    \/ PreviousImage

SpecView == InitView /\ [][NextView]_vars

\* SpecOpen: image changes in the middle of editing: Manual select with one
\* creation (the database gave out the mezo_id below MaxId before), Escape,
\* zooms and pans.
InitOpen == InitWith(EditWindow, MaxId)

NextOpen ==
    \/ \E p \in EditTaps : InteractionStart(p)
    \/ InteractionUpdate(R(1), <<1, 1>>)
    \/ InteractionUpdate(R(MaxViewerScale), <<0, 0>>)
    \/ InteractionEnd("none", TRUE)
    \/ Toolbar(1)
    \/ Keyboard("Escape")
    \/ NextImage
    \/ PreviousImage

SpecOpen == InitOpen /\ [][NextOpen]_vars

\* Creations with a record store that may refuse the insert: the two
\* selection tools, one free id.
InitFail == InitWith(EditWindow, MaxId)

NextFail ==
    \/ \E p \in EditTaps : InteractionStart(p)
    \/ \E a \in Answers : InteractionEnd(a, TRUE)
    \/ \E a \in Answers : InteractionEndFailing(a)
    \/ \E i \in 0 .. 1 : Toolbar(i)
    \/ Keyboard("Escape")

SpecFail == InitFail /\ [][NextFail]_vars

\* SpecFile: every operation that writes or reads a mask file: creations
\* with Manual select (two free ids), the Remove tool, Ctrl+Z and image
\* changes.
InitFile == InitWith(EditWindow, MaxId - 1)

NextFile ==
    \/ \E p \in EditTaps : InteractionStart(p)
    \/ InteractionEnd("none", TRUE)
    \/ \E i \in 1 .. 2 : Toolbar(i)
    \/ Keyboard("Z")
    \/ NextImage
    \/ PreviousImage

SpecFile == InitFile /\ [][NextFile]_vars

\* SpecSam: the three tools, with the keys 1, 2, 3 and Escape, on two
\* images; up to two circles are created.
InitSam == InitWith(EditWindow, MaxId - 1)

NextSam ==
    \/ InteractionStart(<<1, 1>>)
    \/ InteractionEnd("row", TRUE)
    \/ \E i \in 0 .. 2 : Toolbar(i)
    \/ \E k \in {"Escape", "1", "2", "3"} : Keyboard(k)
    \/ NextImage
    \/ PreviousImage

SpecSam == InitSam /\ [][NextSam]_vars

\* SpecClick: Manual-select clicks on a view that is zoomed in by a factor of
\* four and zoomed out to fit; one free id.
ClickZooms == {Rat(4, 1), Rat(1, 16)}

InitClick == InitWith(EditWindow, MaxId)

NextClick ==
    \/ \E p \in EditTaps : InteractionStart(p)
    \/ \E f \in ClickZooms : InteractionUpdate(f, <<0, 0>>)
    \/ InteractionEnd("none", TRUE)
    \/ Toolbar(1)
    \/ Keyboard("Escape")

SpecClick == InitClick /\ [][NextClick]_vars

\* ------------------------------------------------------------ properties
\* a is the tail end of b.
IsSuffix(a, b) ==
    /\ Len(a) <= Len(b)
    /\ \A i \in 1 .. Len(a) : a[i] = b[Len(b) - Len(a) + i]

Min(a, b) == IF a < b THEN a ELSE b

\* The steps that change the store.
CreateStep == Len(db') > Len(db)
RemoveToolStep == Len(db') < Len(db) /\ last_op' = "remove"
UndoStep == undo_run' = undo_run + 1

\* C1: after every completed operation the mask is the painting, onto a
\* transparent mask, of the annotations stored for the open image, in
\* insertion order.
C1_MaskIsPaintOfStore == mask = PaintRows(mezo_data, TransparentMask)

\* C2: the k-th consecutive Ctrl+Z after n consecutive creations, for
\* k <= 3 and k <= n, leaves the mask as it was before the creation it undoes.
C2_UndoRestoresMask ==
    [][(UndoStep /\ undo_run < HistoryDepth /\ undo_run < create_run)
          => mask' = pushed[Len(pushed)]]_vars

\* Three consecutive undos after four creations, the first circle still shown.
C2_Witness ==
    /\ undo_run = 3
    /\ create_run = 4
    /\ Len(mezo_data) = 1
    /\ mask = PaintRows(mezo_data, TransparentMask)
    /\ mask # TransparentMask

\* Rows 1, 2, 3 are A, B, C in some order: `b` meets `a` and `c`, which do not
\* meet each other.
Chain(rows, a, b, c) ==
    /\ {a, b, c} = {1, 2, 3}
    /\ circles_intersect(rows[a], rows[b])
    /\ circles_intersect(rows[b], rows[c])
    /\ ~circles_intersect(rows[a], rows[c])

\* C3: when the Remove tool removes B from a mask on which A, B and C are
\* painted, B meeting A and C and A not meeting C, the mask afterwards is the
\* painting of A and C alone.
C3_RemovalLeavesOthersIntact ==
    [][(/\ RemoveToolStep
        /\ Len(mezo_data) = 3
        /\ mask = PaintRows(mezo_data, TransparentMask)
        /\ \E a, b, c \in 1 .. 3 :
              /\ Chain(mezo_data, a, b, c)
              /\ mezo_data' = DeleteRow(mezo_data, mezo_data[b].mezo_id))
          => mask' = PaintRows(mezo_data', TransparentMask)]_vars

\* The margins and the offset of the image agree with the bounding box on
\* both axes.
MarginSums(s) ==
    LET b == BoundingBox(s)
    IN  /\ RAdd(s.margin.left, s.margin.right) = RSub(b.width, b.scaled_width)
        /\ RAdd(s.margin.top, s.margin.bottom) = RSub(b.height, b.scaled_height)

InsideBounds(s) ==
    LET b == BoundingBox(s)
        v == Val(s.viewer_offset)
    IN  /\ RLe(b.left, R(v[1]))
        /\ RLe(R(v[1]), RSub(b.right, b.scaled_width))
        /\ RLe(b.top, R(v[2]))
        /\ RLe(R(v[2]), RSub(b.bottom, b.scaled_height))

\* A gesture ended in the "Moving" or the "Scaling" branch.
Reconciled == in_gesture /\ ~in_gesture' /\ (Has(move) \/ Has(scale))

C5_HistoryIsBoundedFifo ==
    /\ [](/\ Len(prev_masks) <= HistoryDepth
          /\ IsSuffix(prev_masks, [i \in 1 .. Len(pushed) |-> PngEncode(pushed[i])]))
    /\ [][Len(pushed') > Len(pushed)
            => Len(prev_masks') = Min(Len(prev_masks) + 1, HistoryDepth)]_vars

\* A fourth snapshot was pushed: the history is full and the oldest is gone.
C5_Witness ==
    /\ Len(prev_masks) = HistoryDepth
    /\ Len(pushed) > HistoryDepth

\* C6: viewer_scale is within [1, 15] in every state, whatever the zooms,
\* resets, resizes and image changes.
C6_ViewerScaleInRange ==
    /\ RLe(R(MinViewerScale), viewer_scale)
    /\ RLe(viewer_scale, R(MaxViewerScale))

\* A zoom by 15 at scale 15 was cut to the ratio 1.
C6_Witness ==
    /\ viewer_scale = R(MaxViewerScale)
    /\ scale = Some(R(1))
    /\ start_scale = Some(R(MaxViewerScale))
    /\ in_gesture

\* C8: whenever a gesture ends in a pan or zoom reconciliation, the four
\* margins it leaves are >= 0.
C8_MarginsNonNegative ==
    [][Reconciled =>
          /\ RLe(R(0), margin.left')
          /\ RLe(R(0), margin.top')
          /\ RLe(R(0), margin.right')
          /\ RLe(R(0), margin.bottom')]_vars

\* A pan was stopped at the left edge of the bounding box of a zoomed image.
C8_Witness ==
    /\ ~in_gesture
    /\ margin.left = R(0)
    /\ RLt(R(0), margin.right)
    /\ R(Val(viewer_offset)[1]) = BoundingBox(Session).left

\* C9: whenever a gesture ends in a pan or zoom reconciliation, the margins
\* of each axis add up to the bounding box less the scaled image, at the
\* viewer_size and viewer_scale of the moment.
C9_MarginSums ==
    [][Reconciled => \A t \in {Session'} : MarginSums(t)]_vars

\* C10: whenever a gesture ends, the image lies inside its bounding box.
C10_ImageInsideBounds ==
    [][(in_gesture /\ ~in_gesture') => \A t \in {Session'} : InsideBounds(t)]_vars

\* The viewer, the tool and the undo history as open_image is said to leave
\* them.
Opened ==
    /\ viewer_scale = R(1)
    /\ viewer_offset = Some(main_offset)
    /\ margin = ZeroMargin
    /\ tool = NoTool
    /\ current_coord = Absent
    /\ prev_masks = <<>>

\* C7: after the first open_image and after every change of image the viewer
\* is at scale 1 and at main_offset with margins 0, no tool is selected, no
\* manual-select point is pending and the undo history is empty.
C7_OpenImageResets ==
    /\ Opened
    /\ [][image_index' # image_index => Opened']_vars

\* The second image was opened after a circle was created on the first.
C7_Witness ==
    /\ image_index = 1
    /\ last_op = "open"
    /\ Has(mask_files[0])
    /\ Opened

\* A gesture that began and ends at viewer_scale 15 ends.
LimitGestureEnds ==
    /\ in_gesture
    /\ ~in_gesture'
    /\ start_scale = Some(R(MaxViewerScale))
    /\ viewer_scale = R(MaxViewerScale)

\* Nothing a pan, a zoom or a click could change has changed.
GestureNoOp ==
    UNCHANGED <<viewer_offset, margin, db, mezo_data, mask, mask_files,
                prev_masks, current_coord, tool>>

\* C11 as stated: a gesture that begins and ends at viewer_scale 15 changes
\* neither viewer_offset nor the margins, dispatches no click and leaves
\* store and mask alone, whether it is a tap, a pan or a zoom-in attempt.
C11_LimitGestureIsNoOp == [][LimitGestureEnds => GestureNoOp]_vars

\* C11, amended: the same for a gesture without a pan (no 'move' recorded);
\* a pan at viewer_scale 15 is reconciled as a pan.
C11_LimitTapIsNoOp == [][(LimitGestureEnds /\ ~Has(move)) => GestureNoOp]_vars

\* A gesture with a zoom-in attempt ended at the limit with Manual select on:
\* the ratio is still recorded and no point is pending.
C11_Witness ==
    /\ ~in_gesture
    /\ start_scale = Some(R(MaxViewerScale))
    /\ viewer_scale = R(MaxViewerScale)
    /\ Has(scale)
    /\ tool = "Manual select"
    /\ ~Has(current_coord)

\* The session Ctrl+Z leaves.
AfterCtrlZ == on_keyboard(Session, "Z", TRUE)

\* p is a pixel of the disc or of the center dot of some row.
Covered(p, rows) ==
    \E i \in 1 .. Len(rows) :
        InCircle(p, rows[i].center, rows[i].diameter2) \/ InCenterDot(p, rows[i].center)

\* C12 as stated: with an empty undo history Ctrl+Z changes neither the store
\* nor the mask.
C12_UndoOnEmptyHistoryIsNoOp ==
    (~in_gesture /\ prev_masks = <<>>) =>
        (AfterCtrlZ.db = db /\ AfterCtrlZ.mask = mask)

\* C12, amended: with an empty undo history Ctrl+Z deletes the newest
\* annotation of the open image, leaves the history empty and changes the
\* mask only on pixels of stored circles; it changes nothing when the image
\* has no annotation or a manual-select point is pending.
C12_UndoOnEmptyHistoryDeletesNewest ==
    (~in_gesture /\ prev_masks = <<>>) =>
        IF mezo_data = <<>> \/ Has(current_coord)
        THEN AfterCtrlZ = Session
        ELSE /\ AfterCtrlZ.db = DeleteRow(db, mezo_data[Len(mezo_data)].mezo_id)
             /\ AfterCtrlZ.mezo_data = SubSeq(mezo_data, 1, Len(mezo_data) - 1)
             /\ AfterCtrlZ.prev_masks = <<>>
             /\ \A p \in Pixels :
                    ~Covered(p, mezo_data) => AfterCtrlZ.mask[p] = mask[p]

\* Ctrl+Z deleted the newest of three stored circles from an empty history.
C12_Witness ==
    /\ last_op = "undo"
    /\ undo_run = 1
    /\ prev_masks = <<>>
    /\ pushed = <<>>
    /\ Len(mezo_data) = 2
    /\ Val(last_mezo).mezo_id = 3

\* A gesture ends as a click: no pan, no zoom to reconcile, not at the limit.
ClickStep ==
    /\ in_gesture
    /\ ~in_gesture'
    /\ ~Has(move)
    /\ ~Has(scale)
    /\ ~ScaleLimit(Session)

\* The rows of mezo_data whose circle holds the point clicked.
UnderClick ==
    {i \in 1 .. Len(mezo_data) :
        InCircle(ClickCoord(Session), mezo_data[i].center, mezo_data[i].diameter2)}

C14_DegenerateSelectionRejected ==
    [][(/\ ClickStep
        /\ tool = "Manual select"
        /\ current_coord = Some(ClickCoord(Session)))
          => UNCHANGED <<db, mezo_data, mask, mask_files>>]_vars

\* A click of a selection tool that is not the first click of a Manual
\* selection: it runs add_mezo_to_db unless the oracle gave nothing.
CreateClick ==
    /\ ClickStep
    /\ \/ tool = "Manual select" /\ Has(current_coord)
       \/ tool = "Magic select"

\* C15: a create whose insert failed (the store has no new record) paints
\* nothing on the mask and pushes no undo snapshot.
C15_FailedInsertLeavesMask ==
    [][(CreateClick /\ db' = db)
          => UNCHANGED <<mask, mask_files, prev_masks>>]_vars

\* A gesture in progress that viewer_interaction_end will take for a click.
ClickPending ==
    /\ in_gesture
    /\ ~Has(move)
    /\ ~Has(scale)
    /\ ~ScaleLimit(Session)

\* The predictor is missing or answers `answer` with an empty mask.
OracleFails(answer) ==
    \/ ~Has(sam_model)
    \/ SaMask(answer, ClickCoord(Session)) = {}

\* C16: a Magic-select click on which the oracle fails creates no annotation,
\* leaves the mask, its file and the undo history as they were, and leaves
\* the tool Magic select.
C16_OracleFailureIsNoOp ==
    (ClickPending /\ tool = "Magic select") =>
        \A answer \in Answers :
            OracleFails(answer) =>
                LET t == viewer_interaction_end(Session, answer, TRUE)
                IN  /\ t.db = db
                    /\ t.next_id = next_id
                    /\ t.mezo_data = mezo_data
                    /\ t.mask = mask
                    /\ t.mask_files = mask_files
                    /\ t.prev_masks = prev_masks
                    /\ t.tool = "Magic select"

\* A Magic-select click was dispatched and changed no annotation, next to
\* an annotation made before.
C16_Witness ==
    /\ ~in_gesture
    /\ last_log = <<<<"click", "Magic select">>>>
    /\ tool = "Magic select"
    /\ mezo_data # <<>>
    /\ prev_masks # <<>>

\* The mask file of the open image, decoded, is the mask in memory.
FileHoldsMask ==
    /\ Has(mask_files[image_index])
    /\ PngDecode(Val(mask_files[image_index])) = mask

\* C17 as stated: after open_image and after every operation on the mask,
\* the mask file of the open image holds the mask in memory.
C17_FileAlwaysHoldsMask == FileHoldsMask

\* C17: once a mask file exists it holds the mask in memory, after
\* open_image and after every paint, erase and restore; an image that has no
\* mask file yet has a fully transparent mask in memory.
C17_FileHoldsMaskOnceWritten ==
    IF Has(mask_files[image_index])
        THEN FileHoldsMask
        ELSE mask = TransparentMask

\* Image 0 was opened again with the mask file that a creation wrote, while
\* image 1 has no mask file.
C17_Witness ==
    /\ last_op = "open"
    /\ image_index = 0
    /\ FileHoldsMask
    /\ mask # TransparentMask
    /\ ~Has(mask_files[1])

C19_RemovingTheOnlyCircleClearsMask ==
    (/\ ClickPending
     /\ tool = "Remove tool"
     /\ Len(mezo_data) = 1
     /\ db = mezo_data
     /\ mask = PaintRows(mezo_data, TransparentMask)
     /\ UnderClick = {1}) =>
        LET t == viewer_interaction_end(Session, "none", TRUE)
        IN  /\ t.db = <<>>
            /\ t.mezo_data = <<>>
            /\ t.mask = TransparentMask

MappedAxis(i) ==
    Round(RDiv(R(Val(start_cursor)[i] - Val(viewer_offset)[i]), image_scale))

\* C21: the image point a click hands to the tool (here the center that
\* Manual select records) is round((start_cursor - viewer_offset) /
\* image_scale) on each axis.
C21_ClickMapsToImagePoint ==
    [][(ClickStep /\ tool = "Manual select" /\ ~Has(current_coord))
          => current_coord' = Some(<<MappedAxis(1), MappedAxis(2)>>)]_vars

\* A click on the image shown at four times its size was recorded as a center
\* that is not the viewer point itself.
C21_Witness ==
    /\ ~in_gesture
    /\ last_log = <<<<"click", "Manual select">>>>
    /\ image_scale = R(4)
    /\ Has(start_cursor)
    /\ current_coord = Some(<<MappedAxis(1), MappedAxis(2)>>)
    /\ Val(current_coord)[1] # Val(start_cursor)[1] - Val(viewer_offset)[1]

\* C22: a zoom gesture that ends with image_scale equal to window_scale sets
\* viewer_offset to main_offset and the four margins to 0, whatever they
\* were before.
C22_ZoomOutToFitSnaps ==
    [][(/\ in_gesture
        /\ ~in_gesture'
        /\ ~Has(move)
        /\ Has(scale)
        /\ ~(start_scale = Some(R(MaxViewerScale)) /\ viewer_scale = R(MaxViewerScale))
        /\ image_scale = window_scale)
          => (viewer_offset' = Some(main_offset) /\ margin' = ZeroMargin)]_vars

\* A gesture that began at the maximum scale, away from the main offset,
\* ended at fit-to-window with the offset on the main offset and no margins.
C22_Witness ==
    /\ ~in_gesture
    /\ ~Has(scale)
    /\ start_scale = Some(R(MaxViewerScale))
    /\ viewer_scale = R(1)
    /\ image_scale = window_scale
    /\ Has(start_offset)
    /\ start_offset # Some(main_offset)
    /\ viewer_offset = Some(main_offset)
    /\ margin = ZeroMargin

\* C23: after a window resize at fit-to-window (viewer_scale = 1),
\* viewer_offset is the main_offset computed for the new viewer_size.
C23_ResizeKeepsImageAnchored ==
    [][(viewer_size' # viewer_size /\ viewer_scale = R(1))
          => viewer_offset' = Some(main_offset')]_vars

\* The fit-to-window path at the viewer size of a session.
FitToWindow(s) == window_resized(s, s.page_size)

ViewportState(s) ==
    <<s.viewer_scale, s.window_scale, s.image_scale, s.main_offset,
      s.viewer_offset, s.margin>>

\* C24: the fit-to-window path run twice in a row at the same viewer size
\* leaves the same viewer_scale, window_scale, image_scale, main_offset,
\* viewer_offset and margins as run once, through window_resized and through
\* update_scale(1).
C24_FitToWindowIsIdempotent ==
    /\ ViewportState(FitToWindow(FitToWindow(Session)))
           = ViewportState(FitToWindow(Session))
    /\ ViewportState(update_scale(update_scale(Session, R(1)), R(1)))
           = ViewportState(update_scale(Session, R(1)))

\* The fit-to-window path ran in the small window, on a view that is zoomed
\* in and away from its main offset.
C24_Witness ==
    /\ ~in_gesture
    /\ page_size = SmallWindow
    /\ scale = Some(R(1))
    /\ FitToWindow(Session) = Session
    /\ RLt(window_scale, R(1))
    /\ RLt(R(1), viewer_scale)
    /\ viewer_offset # Some(main_offset)

AfterEscape == on_keyboard(Session, "Escape", FALSE)

\* C25: Escape with a Manual-select center pending discards the point and
\* leaves the tool Manual select; Escape with no point pending clears the
\* tool; either way the store, the mask, its file and the undo history stay
\* as they are.
C25_EscapeIsTwoStaged ==
    /\ IF Has(current_coord)
           THEN /\ ~Has(AfterEscape.current_coord)
                /\ AfterEscape.tool = "Manual select"
           ELSE /\ ~Has(AfterEscape.current_coord)
                /\ AfterEscape.tool = NoTool
    /\ AfterEscape.db = db
    /\ AfterEscape.next_id = next_id
    /\ AfterEscape.mezo_data = mezo_data
    /\ AfterEscape.mask = mask
    /\ AfterEscape.mask_files = mask_files
    /\ AfterEscape.prev_masks = prev_masks

\* Escape discarded a pending center, next to an annotation made before:
\* the tool is still Manual select.
C25_Witness ==
    /\ ~in_gesture
    /\ last_log = <<<<"escape", "current_coord">>>>
    /\ tool = "Manual select"
    /\ ~Has(current_coord)
    /\ mezo_data # <<>>
    /\ prev_masks # <<>>

\* The toolbar index and the key of each tool.
ToolKeys == <<"1", "2", "3">>

\* Any selection of a tool sets it and leaves no pending center.
SelectionSetsTool ==
    \A index \in 0 .. 2 :
        \A t \in {change_tool(Session, index),
                  on_keyboard(Session, ToolKeys[index + 1], FALSE)} :
            /\ t.tool = Tools[index + 1]
            /\ ~Has(t.current_coord)

\* The first Manual-select click after a selection of Manual select records
\* a center and creates nothing.
ClickAfterSelectionIsCenter ==
    (ClickStep /\ tool = "Manual select"
               /\ last_log # <<>>
               /\ last_log[1] = <<"tool", "Manual select">>)
        => (Has(current_coord') /\ db' = db /\ mask' = mask)

\* C26: a tool selection from the toolbar or by the keys 1, 2, 3, with a
\* center pending or not, sets the tool selected and leaves no pending
\* current_coord, and the Manual-select click that follows a selection is
\* taken as a new center.
C26_SelectionDropsPendingCenter ==
    [][SelectionSetsTool /\ ClickAfterSelectionIsCenter]_vars

\* Manual select was selected again while a center was pending: the center
\* is gone.
C26_Witness ==
    /\ ~in_gesture
    /\ last_log = <<<<"tool", "Manual select">>, <<"discard", "current_coord">>>>
    /\ tool = "Manual select"
    /\ ~Has(current_coord)

C28_FirstClickOnlyRecordsCenter ==
    [][(ClickStep /\ tool = "Manual select" /\ ~Has(current_coord))
          => /\ Has(current_coord')
             /\ tool' = "Manual select"
             /\ UNCHANGED <<db, next_id, mezo_data, mask, mask_files,
                            prev_masks>>]_vars

\* A first click recorded its center on a mask that holds two circles, with
\* two snapshots in the history.
C28_Witness ==
    /\ ~in_gesture
    /\ last_log = <<<<"click", "Manual select">>>>
    /\ Has(current_coord)
    /\ Len(mezo_data) = 2
    /\ Len(prev_masks) = 2
    /\ mask # TransparentMask

\* The mask after the overlap algorithm removed row from the mask of the
\* session: the circle erased, the chain of circles that intersect it erased
\* and painted again.
OverlapRemoval(row) ==
    LET rows == SelectSeq(mezo_data, LAMBDA r : r.mezo_id # row.mezo_id)
        erased == recursive_removing(remove_mezo_from_viewer(Session, row),
                                     row, rows)
    IN  recursive_adding(erased, row, rows).mask

\* C29: a Remove-tool deletion pops no snapshot and restores none, whatever
\* the undo history holds: the mask it leaves is the one of the
\* erase-then-repaint overlap algorithm.
C29_RemoveToolNeverPops ==
    [][(ClickStep /\ tool = "Remove tool" /\ UnderClick # {})
          => /\ prev_masks' = prev_masks
             /\ mask' = OverlapRemoval(mezo_data[MaxOf(UnderClick)])]_vars

\* The Remove tool deleted one of two circles while the history held two
\* snapshots: both are still there, and the mask is not the last of them.
C29_Witness ==
    /\ ~in_gesture
    /\ last_op = "remove"
    /\ Len(mezo_data) = 1
    /\ Len(prev_masks) = 2
    /\ PngDecode(prev_masks[2]) # mask

\* C30: below the maximum scale, a gesture that ends without a pan and
\* without a change of scale since its start is a click: viewer_offset and
\* the margins stay, and the click is dispatched with the active tool.
C30_TapIsAClick ==
    [][(/\ in_gesture
        /\ ~in_gesture'
        /\ ~Has(move)
        /\ start_scale = Some(viewer_scale)
        /\ RLt(viewer_scale, R(MaxViewerScale)))
          => /\ UNCHANGED <<viewer_offset, margin>>
             /\ last_log' # <<>>
             /\ last_log'[1] = <<"click", tool>>]_vars

\* C31: the snapshot that a Ctrl+Z restores is the mask as it was right
\* before the creation of the annotation that this Ctrl+Z deletes.
C31_UndoRestoresItsOwnSnapshot ==
    [][(UndoStep /\ prev_masks # <<>>)
          => /\ mask' = pushed[Len(pushed)]
             /\ pushed_for[Len(pushed_for)] = Val(last_mezo').mezo_id]_vars

\* How many events of a kind a log holds for a mezo_id.
EventCount(log, kind, mezo_id) ==
    Cardinality({i \in 1 .. Len(log) : log[i][1] = kind /\ log[i][2] = mezo_id})

\* C32: a Remove-tool deletion erases each annotation at most once and
\* paints each surviving annotation that it erased exactly once.
C32_ClosureRepaintedOnce ==
    [][RemoveToolStep =>
          \A id \in 1 .. MaxId :
              /\ EventCount(last_log', "erase", id) <= 1
              /\ EventCount(last_log', "paint", id) <= 1
              /\ id # Val(last_mezo').mezo_id =>
                     EventCount(last_log', "paint", id)
                         = EventCount(last_log', "erase", id)]_vars

RECURSIVE Reached(_, _, _)
\* The indices of the rows that a chain of intersecting circles links to
\* row, given those already found.
Reached(row, rows, found) ==
    LET more == {j \in (1 .. Len(rows)) \ found :
                    \/ circles_intersect(row, rows[j])
                    \/ \E k \in found : circles_intersect(rows[k], rows[j])}
    IN  IF more = {} THEN found ELSE Reached(row, rows, found \cup more)

\* The mezo_ids a log holds events of a kind for.
EventIds(log, kind) ==
    {log[i][2] : i \in {j \in 1 .. Len(log) : log[j][1] = kind}}

\* C33: a Remove-tool deletion of R erases R and the remaining annotations
\* that a chain of intersecting circles links to R, paints those again
\* except R, and erases and paints no other annotation.
C33_ErasedSetIsClosure ==
    [][RemoveToolStep =>
          LET removed == Val(last_mezo')
              closure == {mezo_data'[j].mezo_id :
                             j \in Reached(removed, mezo_data', {})}
          IN  /\ EventIds(last_log', "erase") = closure \cup {removed.mezo_id}
              /\ EventIds(last_log', "paint") = closure]_vars

\* The Remove tool removed a circle that meets the first remaining circle
\* and not the second, which meets the first: both were erased and painted.
C33_Witness ==
    /\ ~in_gesture
    /\ last_op = "remove"
    /\ Len(mezo_data) = 2
    /\ circles_intersect(Val(last_mezo), mezo_data[1])
    /\ ~circles_intersect(Val(last_mezo), mezo_data[2])
    /\ circles_intersect(mezo_data[1], mezo_data[2])
    /\ EventIds(last_log, "paint") = {mezo_data[1].mezo_id, mezo_data[2].mezo_id}

\* The rows the two passes of the running remove_mezo visited, as the
\* events recursive_removing and recursive_adding log for the same rows.
PassesAgree ==
    calls.kind = "done" =>
        calls.visited =
            recursive_adding(
                recursive_removing(Session, calls.start_mezo, calls.rows),
                calls.start_mezo, calls.rows).log

\* C34: the erase pass and the repaint pass of a removal come to an end,
\* whatever circles the image holds and however they intersect.
C34_PassesTerminate ==
    (calls.kind = "erase") ~> (calls.kind = "done")

\* Both passes are over for a removed circle and two remaining circles that
\* are duplicates of each other and meet the removed one: a cycle of three.
C34_Witness ==
    /\ calls.kind = "done"
    /\ Len(calls.rows) = 2
    /\ calls.rows[1].center = calls.rows[2].center
    /\ calls.rows[1].diameter2 = calls.rows[2].diameter2
    /\ circles_intersect(calls.start_mezo, calls.rows[1])
    /\ Len(calls.visited) = 8

\* The margins viewer_interaction_end computes for a scaling before it
\* clamps them: <<left, top, right, bottom>>.
RawZoomMargins(s) ==
    LET b == BoundingBox(s)
        start == Val(s.start_offset)
        x0 == RAdd(R(start[1]),
                   RMul(R(Val(s.start_cursor)[1] - start[1]),
                        RSub(R(1), Val(s.scale))))
        y0 == RAdd(R(start[2]),
                   RMul(R(Val(s.start_cursor)[2] - start[2]),
                        RSub(R(1), Val(s.scale))))
    IN  <<RSub(x0, b.left), RSub(y0, b.top),
          RSub(b.right, RAdd(x0, b.scaled_width)),
          RSub(b.bottom, RAdd(y0, b.scaled_height))>>

\* The image coordinate shown at viewer coordinate focal when the image is
\* drawn at offset with scale img_scale.
ImagePointAt(focal, offset, img_scale) ==
    RDiv(R(focal - offset), img_scale)

\* Two image coordinates differ by no more than one pixel of the image or
\* of the viewer at scale img_scale.
WithinAPixel(a, b, img_scale) ==
    LET d == IF RLt(a, b) THEN RSub(b, a) ELSE RSub(a, b)
    IN  RLe(d, R(1)) \/ RLe(RMul(d, img_scale), R(1))

\* A gesture ends that zoomed and did not pan, not at fit-to-window and
\* with no margin to clamp.
PureZoomEnds ==
    /\ in_gesture
    /\ ~in_gesture'
    /\ ~Has(move)
    /\ Has(scale)
    /\ viewer_scale # Val(start_scale)
    /\ RoundDigits(image_scale, ScaleDigits) # RoundDigits(window_scale, ScaleDigits)
    /\ \A k \in 1 .. 4 : ~RLt(RawZoomMargins(Session)[k], R(0))

\* C35: after a pure zoom gesture that does not end at fit-to-window and
\* needs no clamping, the image point under the focal point of the gesture
\* is the one that was there when the gesture started, up to a pixel.
C35_ZoomKeepsFocalPoint ==
    [][PureZoomEnds =>
          \A axis \in 1 .. 2 :
              WithinAPixel(
                  ImagePointAt(Val(start_cursor)[axis], Val(viewer_offset')[axis],
                               image_scale),
                  ImagePointAt(Val(start_cursor)[axis], Val(start_offset)[axis],
                               RMul(window_scale, Val(start_scale))),
                  image_scale)]_vars

\* The same for a gesture whose last update made the whole zoom.
SingleUpdateZoomKeepsFocalPoint ==
    [][(PureZoomEnds /\ Val(scale) = RDiv(viewer_scale, Val(start_scale))) =>
          \A axis \in 1 .. 2 :
              WithinAPixel(
                  ImagePointAt(Val(start_cursor)[axis], Val(viewer_offset')[axis],
                               image_scale),
                  ImagePointAt(Val(start_cursor)[axis], Val(start_offset)[axis],
                               RMul(window_scale, Val(start_scale))),
                  image_scale)]_vars

\* C36: Ctrl+Z changes nothing while a manual-select center is pending or
\* while the store holds no annotation of the open image: store, mask, mask
\* file, undo history and pending center stay as they are.
C36_BlockedUndoIsNoOp ==
    (Has(current_coord) \/ SelectRows(db, ImageId(image_index)) = <<>>) =>
        /\ AfterCtrlZ.db = db
        /\ AfterCtrlZ.next_id = next_id
        /\ AfterCtrlZ.mezo_data = mezo_data
        /\ AfterCtrlZ.mask = mask
        /\ AfterCtrlZ.mask_files = mask_files
        /\ AfterCtrlZ.prev_masks = prev_masks
        /\ AfterCtrlZ.current_coord = current_coord
        /\ AfterCtrlZ.log = <<>>

\* A center is pending while there is an annotation to delete and a
\* snapshot to restore.
C36_Witness ==
    /\ ~in_gesture
    /\ Has(current_coord)
    /\ mezo_data # <<>>
    /\ prev_masks # <<>>

\* The rows of a table, as a set.
RowSet(rows) == {rows[i] : i \in 1 .. Len(rows)}

\* The rows the store holds for the open image.
OpenImageRows == {r \in RowSet(db) : r.image_id = ImageId(image_index)}

\* The row of the open image with the highest mezo_id.
NewestOpenRow ==
    CHOOSE r \in OpenImageRows : \A q \in OpenImageRows : q.mezo_id <= r.mezo_id

\* The mezo_ids a log erases, paints or restores a snapshot for.
TouchedIds(log) ==
    EventIds(log, "erase") \cup EventIds(log, "paint") \cup EventIds(log, "restore")

\* C37: a Ctrl+Z that is not blocked deletes exactly one annotation, the
\* one of the open image with the highest id; an undo or a Remove-tool
\* deletion deletes only a row of the open image, erases and paints only
\* annotations of the open image and leaves the other images' masks alone.
C37_RemovalsStayInTheOpenImage ==
    [][/\ (~in_gesture /\ ~Has(current_coord) /\ OpenImageRows # {})
              => RowSet(AfterCtrlZ.db) = RowSet(db) \ {NewestOpenRow}
       /\ UndoStep => Val(last_mezo') = NewestOpenRow
       /\ (UndoStep \/ RemoveToolStep)
              => /\ Val(last_mezo') \in OpenImageRows
                 /\ RowSet(db') = RowSet(db) \ {Val(last_mezo')}
                 /\ Len(db') = Len(db) - 1
                 /\ \A id \in TouchedIds(last_log') :
                        \E r \in OpenImageRows : r.mezo_id = id
                 /\ \A i \in 0 .. ImageCount - 1 :
                        i # image_index => mask_files'[i] = mask_files[i]]_vars

\* An undo deleted the annotation of the open image while the store holds
\* a newer annotation of another image, whose mask file exists.
C37_Witness ==
    /\ ~in_gesture
    /\ last_op = "undo"
    /\ \E r \in RowSet(db) :
           /\ r.image_id # ImageId(image_index)
           /\ r.mezo_id > Val(last_mezo).mezo_id
           /\ Has(mask_files[r.image_id - 1])

\* C38: while the tool is Magic select the session holds a predictor, and
\* it was fitted on the image that is open.
C38_MagicSelectHasFittedPredictor ==
    tool = "Magic select" => sam_model = Some(image_index)

\* Magic select created a circle on the second image, opened after the
\* predictor had been fitted on the first one.
C38_Witness ==
    /\ ~in_gesture
    /\ tool = "Magic select"
    /\ image_index = 1
    /\ last_op = "create"
    /\ \E r \in RowSet(db) : r.image_id = ImageId(0)
    /\ sam_model = Some(image_index)

====
